---- MODULE Spec2Model ----
(***************************************************************************)
(* A model of src/posts.js (NodeBB): the vote-count fan-out                *)
(* Posts.updatePostVoteCount over the sorted-set store, and the rank and   *)
(* range queries Posts.getPidIndex, Posts.getPostIndices and               *)
(* Posts.getPidsFromSet.                                                   *)
(*                                                                         *)
(* A sorted set is a function member -> score whose DOMAIN is the set of   *)
(* members.  zsets maps every key ('posts:votes', 'tid:1:posts:votes', ..) *)
(* to its sorted set; a key that was never written holds the empty set.    *)
(***************************************************************************)
EXTENDS Integers, Sequences, FiniteSets, TLC

VARIABLES
    zsets,      \* key -> sorted set (member -> score)
    postObj,    \* pid -> stored fields of 'post:<pid>'
    topicObj,   \* tid -> stored fields of 'topic:<tid>'
    calls,      \* call slot -> state of one Posts.updatePostVoteCount invocation
    applied,    \* pid -> postData of the last invocation that called back without error
    invoked,    \* how many invocations were made, where the specification counts them
    ret,        \* what the last query handed to its callback
    dbLog       \* the backend calls the last query issued, in order

vars == <<zsets, postObj, topicObj, calls, applied, invoked, ret, dbLog>>

(***************************************************************************)
(* Bounds of the model.                                                    *)
(***************************************************************************)
MaxUpvotes == 1
MaxFailures == 1
MaxInvocations == 2
MaxPosts == 2
MaxPids == 3

(***************************************************************************)
(* JavaScript values, as far as the code converts them: numbers (integers  *)
(* and n + 0.5), NaN, strings (sequences of one-character strings), null,  *)
(* undefined, true and false.                                              *)
(***************************************************************************)
JsNum(n) == [t |-> "number", n |-> n, half |-> FALSE, s |-> <<>>]
JsHalf(n) == [t |-> "number", n |-> n, half |-> TRUE, s |-> <<>>]
JsNaN == [t |-> "NaN", n |-> 0, half |-> FALSE, s |-> <<>>]
JsStr(s) == [t |-> "string", n |-> 0, half |-> FALSE, s |-> s]
JsNull == [t |-> "null", n |-> 0, half |-> FALSE, s |-> <<>>]
JsUndefined == [t |-> "undefined", n |-> 0, half |-> FALSE, s |-> <<>>]
JsBool(b) == [t |-> "boolean", n |-> IF b THEN 1 ELSE 0, half |-> FALSE, s |-> <<>>]

Digits == {"0", "1", "2", "3", "4", "5", "6", "7", "8", "9"}

DigitVal(ch) ==
    CASE ch = "0" -> 0 [] ch = "1" -> 1 [] ch = "2" -> 2 [] ch = "3" -> 3
      [] ch = "4" -> 4 [] ch = "5" -> 5 [] ch = "6" -> 6 [] ch = "7" -> 7
      [] ch = "8" -> 8 [] ch = "9" -> 9

\* The string of a non-negative integer, as String(n) writes it.
RECURSIVE DigitsOf(_)
DigitsOf(n) ==
    IF n < 10 THEN <<ToString(n)>> ELSE Append(DigitsOf(n \div 10), ToString(n % 10))

\* The length of the longest prefix of s made of digits.
RECURSIVE DigitPrefixLen(_)
DigitPrefixLen(s) ==
    IF s = <<>> \/ Head(s) \notin Digits THEN 0 ELSE 1 + DigitPrefixLen(Tail(s))

RECURSIVE DigitsValue(_, _)
DigitsValue(s, k) ==
    IF k = 0 THEN 0 ELSE 10 * DigitsValue(s, k - 1) + DigitVal(s[k])

\* parseInt(s, 10) of a string: an optional sign, then the longest run of digits;
\* NaN when there is no digit.
ParseIntString(s) ==
    LET neg  == s # <<>> /\ Head(s) = "-"
        body == IF s # <<>> /\ Head(s) \in {"-", "+"} THEN Tail(s) ELSE s
        k    == DigitPrefixLen(body)
    IN  IF k = 0 THEN JsNaN
        ELSE JsNum(IF neg THEN 0 - DigitsValue(body, k) ELSE DigitsValue(body, k))

\* parseInt(v, 10): a number is truncated towards zero, null and undefined read as
\* the strings "null" and "undefined".
ParseInt(v) ==
    CASE v.t = "number" -> JsNum(IF v.half /\ v.n < 0 THEN v.n + 1 ELSE v.n)
      [] v.t = "string" -> ParseIntString(v.s)
      [] OTHER -> JsNaN

\* Whether Number(s) of a string is a number: the empty string is 0, otherwise an
\* optional sign and digits with at most one ".", at least one digit, nothing else.
StringIsNumeric(s) ==
    LET body == IF s # <<>> /\ Head(s) \in {"-", "+"} THEN Tail(s) ELSE s
        dots == {i \in DOMAIN body : body[i] = "."}
    IN  \/ s = <<>>
        \/ /\ \A i \in DOMAIN body : body[i] \in Digits \cup {"."}
           /\ Cardinality(dots) <= 1
           /\ \E i \in DOMAIN body : body[i] \in Digits

\* The global isNaN(v): Number(v) is NaN.
IsNaN(v) ==
    CASE v.t = "number" -> FALSE
      [] v.t = "NaN" -> TRUE
      [] v.t = "string" -> ~StringIsNumeric(v.s)
      [] v.t = "null" -> FALSE
      [] v.t = "boolean" -> FALSE
      [] OTHER -> TRUE

\* Whether a value counts as true in a condition.
Truthy(v) ==
    CASE v.t = "number" -> v.n # 0 \/ v.half
      [] v.t = "string" -> v.s # <<>>
      [] v.t = "boolean" -> v.n = 1
      [] OTHER -> FALSE

\* a === b on the values the code compares: NaN equals nothing.
StrictEquals(a, b) == a.t # "NaN" /\ b.t # "NaN" /\ a = b

(***************************************************************************)
(* The forum the model runs on.  Post 1 opens topic 1; post 2 (a guest's)   *)
(* and post 3 are its replies; posts 1 and 3 have the same author, user 1. *)
(* These are the posts that are voted on (Pids).  Topic 2 is opened by     *)
(* post 4 and has the guests' replies 5 and 6, whose votes were counted    *)
(* before the model starts; they are only ever queried.                    *)
(***************************************************************************)
Pids == {1, 2, 3}
AllPids == {1, 2, 3, 4, 5, 6}
Tids == {1, 2}
Uids == {1}
Cids == {1, 2}
Calls == {1, 2}

PostTid == <<1, 1, 1, 2, 2, 2>>
PostUid == <<1, 0, 1, 0, 0, 0>>
TopicMainPid == <<1, 4>>
TopicCid == <<1, 2>>

\* The creation times that order a topic's replies in 'tid:<tid>:posts'.
PostTimestamp == <<10, 20, 30, 40, 50, 60>>

\* The votes of topic 2's replies.
EarlierVotes == <<0, 0, 0, 0, 1, 0>>

\* The counters a caller passes: upvotes in 0..MaxUpvotes, downvotes 0 or 1, so that
\* votes is negative, zero or positive.
UpvoteCounts == 0..MaxUpvotes
DownvoteCounts == {0, 1}

(***************************************************************************)
(* Keys, as the code concatenates them.                                    *)
(***************************************************************************)
KeyPostsVotes == "posts:votes"
KeyTopicsVotes == "topics:votes"
KeyUidPostsVotes(uid) == "uid:" \o ToString(uid) \o ":posts:votes"
KeyTidPostsVotes(tid) == "tid:" \o ToString(tid) \o ":posts:votes"
KeyTidPosts(tid) == "tid:" \o ToString(tid) \o ":posts"
KeyCidTidsVotes(cid) == "cid:" \o ToString(cid) \o ":tids:votes"

AllKeys ==
    {KeyPostsVotes, KeyTopicsVotes}
        \cup {KeyUidPostsVotes(u) : u \in Uids \cup {0}}
        \cup {KeyTidPostsVotes(t) : t \in Tids}
        \cup {KeyTidPosts(t) : t \in Tids}
        \cup {KeyCidTidsVotes(c) : c \in Cids}

(***************************************************************************)
(* The sorted-set backend (src/database): add-or-update, remove, rank.     *)
(***************************************************************************)
EmptyZset == [m \in {} |-> 0]

ZAdd(z, score, member) ==
    [m \in DOMAIN z \cup {member} |-> IF m = member THEN score ELSE z[m]]

ZRemove(z, member) == [m \in DOMAIN z \ {member} |-> z[m]]

\* The 0-based rank by (score, member), null when the member is absent.
ZRank(z, member) ==
    IF member \in DOMAIN z
    THEN JsNum(Cardinality({m \in DOMAIN z :
                    z[m] < z[member] \/ (z[m] = z[member] /\ m < member)}))
    ELSE JsNull

sortedSetAdd(zs, key, score, member) == [zs EXCEPT ![key] = ZAdd(@, score, member)]
sortedSetRemove(zs, key, member) == [zs EXCEPT ![key] = ZRemove(@, member)]
sortedSetRank(zs, key, member) == ZRank(zs[key], member)

IsMember(zs, key, member) == member \in DOMAIN zs[key]
Score(zs, key, member) == zs[key][member]

(***************************************************************************)
(* The records the collaborators keep (src/posts/data.js, src/topics):     *)
(* setPostFields, setTopicFields and getTopicFields.  The backend hands    *)
(* stored fields back as strings, so a topic's mainPid is read as "1".     *)
(***************************************************************************)
setPostFields(po, pid, up, down) ==
    [po EXCEPT ![pid] = [upvotes |-> up, downvotes |-> down]]

setTopicFields(tobj, tid, up, down) ==
    [tobj EXCEPT ![tid] = [@ EXCEPT !.upvotes = up, !.downvotes = down]]

getTopicFields(tobj, tid) == [mainPid |-> tobj[tid].mainPid, cid |-> tobj[tid].cid]

NoTopicData == [mainPid |-> JsUndefined, cid |-> 0]

(***************************************************************************)
(* postData, the argument of Posts.updatePostVoteCount.  present = FALSE   *)
(* is a call without a post; pid = 0 or tid = 0 is a missing or zero id    *)
(* (both are falsy).  votes is upvotes - downvotes, as the callers set it. *)
(***************************************************************************)
NoPost ==
    [present |-> FALSE, pid |-> 0, tid |-> 0, uid |-> 0,
     upvotes |-> 0, downvotes |-> 0, votes |-> 0]

PostData(pid, tid, uid, up, down) ==
    [present |-> TRUE, pid |-> pid, tid |-> tid, uid |-> uid,
     upvotes |-> up, downvotes |-> down, votes |-> up - down]

WellFormedInputs ==
    {PostData(p, PostTid[p], PostUid[p], u, d) :
        p \in Pids, u \in UpvoteCounts, d \in DownvoteCounts}

MalformedInputs ==
    {NoPost}
        \cup {PostData(0, t, 1, MaxUpvotes, 0) : t \in Tids}
        \cup {PostData(p, 0, PostUid[p], MaxUpvotes, 0) : p \in Pids}
        \cup {PostData(0, 0, 1, MaxUpvotes, 0)}

Inputs == WellFormedInputs \cup MalformedInputs

(***************************************************************************)
(* Posts.updatePostVoteCount, piece by piece.                              *)
(***************************************************************************)
\* The guard without its pid test.
GuardRejectsNoPidTest(pd) == ~pd.present \/ pd.tid = 0

\* line 153: the guard that makes the call a no-op.
GuardRejects(pd) == ~pd.present \/ pd.pid = 0 \/ pd.tid = 0

\* The test for an author left out.
HasAuthorAlways(pd) == TRUE

\* line 158: the post has an author.
HasAuthor(pd) == pd.uid # 0

\* The per-user index without the removal of a post that fell to votes <= 0.
UserVotesUpdateNoRemove(zs, pd) ==
    IF pd.votes > 0
    THEN sortedSetAdd(zs, KeyUidPostsVotes(pd.uid), pd.votes, pd.pid)
    ELSE zs

\* lines 158-166: the per-user index.
UserVotesUpdate(zs, pd) ==
    IF pd.votes > 0
    THEN sortedSetAdd(zs, KeyUidPostsVotes(pd.uid), pd.votes, pd.pid)
    ELSE sortedSetRemove(zs, KeyUidPostsVotes(pd.uid), pd.pid)

\* The main-post test against the post's tid instead of its pid.
IsMainPostByTid(topicData, pd) ==
    StrictEquals(ParseInt(topicData.mainPid), ParseInt(JsNum(pd.tid)))

\* The main-post test without parseInt: the stored string against the number.
IsMainPostNoParseInt(topicData, pd) == StrictEquals(topicData.mainPid, JsNum(pd.pid))

\* line 174: is the post its topic's main post?
IsMainPost(topicData, pd) ==
    StrictEquals(ParseInt(topicData.mainPid), ParseInt(JsNum(pd.pid)))

\* The per-topic index scored by upvotes instead of votes.
TopicPostsVotesUpdateByUpvotes(zs, pd) ==
    sortedSetAdd(zs, KeyTidPostsVotes(pd.tid), pd.upvotes, pd.pid)

\* line 193: a reply goes into its topic's per-topic index.
TopicPostsVotesUpdate(zs, pd) ==
    sortedSetAdd(zs, KeyTidPostsVotes(pd.tid), pd.votes, pd.pid)

\* lines 177-180: the main post's counters are copied to the topic.
MainTopicFieldsUpdate(tobj, pd) == setTopicFields(tobj, pd.tid, pd.upvotes, pd.downvotes)

\* line 183.
MainTopicsVotesUpdate(zs, pd) == sortedSetAdd(zs, KeyTopicsVotes, pd.votes, pd.tid)

\* line 186.
MainCidTidsVotesUpdate(zs, topicData, pd) ==
    sortedSetAdd(zs, KeyCidTidsVotes(topicData.cid), pd.votes, pd.tid)

\* The global index kept like the per-user one: positive tallies only.
GlobalVotesUpdatePositiveOnly(zs, pd) ==
    IF pd.votes > 0
    THEN sortedSetAdd(zs, KeyPostsVotes, pd.votes, pd.pid)
    ELSE sortedSetRemove(zs, KeyPostsVotes, pd.pid)

\* The global index with the topic's id as the member.
GlobalVotesUpdateByTid(zs, pd) == sortedSetAdd(zs, KeyPostsVotes, pd.votes, pd.tid)

\* line 198: the global index.
GlobalVotesUpdate(zs, pd) == sortedSetAdd(zs, KeyPostsVotes, pd.votes, pd.pid)

\* lines 201-204: the post's own counters.
PostFieldsUpdate(po, pd) == setPostFields(po, pd.pid, pd.upvotes, pd.downvotes)

(***************************************************************************)
(* One invocation.  user, topic, global and fields are the four tasks of   *)
(* the outer async.parallel; inner holds the three tasks of the main-post  *)
(* async.parallel.  cb is what the caller's callback received (err names   *)
(* the backend call whose error it was), ncb how often it was called, ops  *)
(* the backend calls made so far, firstErr the first backend call of the   *)
(* invocation that failed.                                                 *)
(***************************************************************************)
IdleCall ==
    [st |-> "idle", postData |-> NoPost, topicData |-> NoTopicData,
     user |-> "none", topic |-> "none", inner |-> <<"none", "none", "none">>,
     global |-> "none", fields |-> "none", cb |-> "none", err |-> "", ncb |-> 0,
     firstErr |-> "", ops |-> 0]

\* Some backend call of the invocation is still outstanding.
HasPending(call) ==
    \/ call.user = "pending"
    \/ call.topic \in {"getTopicFields", "sortedSetAdd"}
    \/ \E i \in 1..3 : call.inner[i] = "pending"
    \/ call.global = "pending"
    \/ call.fields = "pending"

Quiescent(call) == ~HasPending(call)

NumFailed(call) ==
    Cardinality({k \in {"user", "topic", "global", "fields"} : call[k] = "failed"
                    /\ ~(k = "topic" /\ \E i \in 1..3 : call.inner[i] = "failed")})
        + Cardinality({i \in 1..3 : call.inner[i] = "failed"})

\* The four tasks counted without the topic task.
AllTasksDoneIgnoringTopic(call) ==
    call.user = "done" /\ call.global = "done" /\ call.fields = "done"

AllTasksDone(call) ==
    call.user = "done" /\ call.topic = "done" /\ call.global = "done" /\ call.fields = "done"

\* async.parallel's final callback: called once, with the first error, or without
\* one when the last task has completed.
Fire(call, err) ==
    IF call.cb = "none"
    THEN [call EXCEPT !.cb = IF err = "" THEN "ok" ELSE "err", !.err = err, !.ncb = @ + 1]
    ELSE call

\* The final callback with the error dropped: callback() instead of callback(err).
SettleDroppingError(call, err) ==
    IF err # "" THEN Fire(call, "")
    ELSE IF AllTasksDone(call) THEN Fire(call, "")
    ELSE call

\* A task of the outer parallel has ended, with error err ("" for none).
Settle(call, err) ==
    IF err # "" THEN Fire(call, err)
    ELSE IF AllTasksDone(call) THEN Fire(call, "")
    ELSE call

\* The slot takes its new state after backend call who has answered; a callback
\* without error records the tally as applied.
Advance(c, call, ok, who) ==
    LET seen == [call EXCEPT !.firstErr = IF ~ok /\ @ = "" THEN who ELSE @]
        new  == Settle(seen, IF ok THEN "" ELSE who)
    IN  /\ calls' = [calls EXCEPT ![c] = new]
        /\ applied' = IF new.cb = "ok" /\ calls[c].cb = "none"
                      THEN [applied EXCEPT ![new.postData.pid] = new.postData]
                      ELSE applied

Status(ok) == IF ok THEN "done" ELSE "failed"

\* lines 152-156: the guard, then the four tasks start.
Invoke(c, pd) ==
    /\ Quiescent(calls[c])
    /\ calls' = [calls EXCEPT ![c] =
         IF GuardRejects(pd)
         THEN [IdleCall EXCEPT !.st = "called", !.postData = pd, !.cb = "ok", !.ncb = 1]
         ELSE [IdleCall EXCEPT !.st = "called", !.postData = pd,
                               !.user = IF HasAuthor(pd) THEN "pending" ELSE "done",
                               !.topic = "getTopicFields",
                               !.global = "pending", !.fields = "pending"]]
    /\ UNCHANGED <<zsets, postObj, topicObj, applied, ret, dbLog>>

\* lines 157-167.
UserTask(c, ok) ==
    /\ calls[c].user = "pending"
    /\ zsets' = IF ok THEN UserVotesUpdate(zsets, calls[c].postData) ELSE zsets
    /\ Advance(c, [calls[c] EXCEPT !.user = Status(ok), !.ops = @ + 1], ok, "user")
    /\ UNCHANGED <<postObj, topicObj, invoked, ret, dbLog>>

\* lines 170-175: the topic's mainPid and cid are read, and the branch is chosen.
TopicRead(c, ok) ==
    /\ calls[c].topic = "getTopicFields"
    /\ LET td == getTopicFields(topicObj, calls[c].postData.tid)
           main == IsMainPost(td, calls[c].postData)
       IN  Advance(c, [calls[c] EXCEPT
                         !.topicData = IF ok THEN td ELSE @,
                         !.topic = IF ~ok THEN "failed"
                                   ELSE IF main THEN "parallel" ELSE "sortedSetAdd",
                         !.inner = IF ok /\ main
                                   THEN <<"pending", "pending", "pending">> ELSE @,
                         !.ops = @ + 1], ok, "getTopicFields")
    /\ UNCHANGED <<zsets, postObj, topicObj, invoked, ret, dbLog>>

\* line 193.
TopicWrite(c, ok) ==
    /\ calls[c].topic = "sortedSetAdd"
    /\ zsets' = IF ok THEN TopicPostsVotesUpdate(zsets, calls[c].postData) ELSE zsets
    /\ Advance(c, [calls[c] EXCEPT !.topic = Status(ok), !.ops = @ + 1], ok, "topic")
    /\ UNCHANGED <<postObj, topicObj, invoked, ret, dbLog>>

\* lines 175-190: task i of the main-post parallel ends.  The first error is passed
\* on at once; without one the topic task ends with the last of the three.
InnerDone(c, i, ok, who) ==
    LET call == calls[c]
        inner == [call.inner EXCEPT ![i] = Status(ok)]
        first == call.topic = "parallel"
        topic == IF ~first THEN call.topic
                 ELSE IF ~ok THEN "failed"
                 ELSE IF \A j \in 1..3 : inner[j] = "done" THEN "done"
                 ELSE "parallel"
    IN  Advance(c, [call EXCEPT !.inner = inner, !.topic = topic, !.ops = @ + 1], ok, who)

MainSetTopicFields(c, ok) ==
    /\ calls[c].inner[1] = "pending"
    /\ topicObj' = IF ok THEN MainTopicFieldsUpdate(topicObj, calls[c].postData) ELSE topicObj
    /\ InnerDone(c, 1, ok, "setTopicFields")
    /\ UNCHANGED <<zsets, postObj, invoked, ret, dbLog>>

MainTopicsVotes(c, ok) ==
    /\ calls[c].inner[2] = "pending"
    /\ zsets' = IF ok THEN MainTopicsVotesUpdate(zsets, calls[c].postData) ELSE zsets
    /\ InnerDone(c, 2, ok, "topics:votes")
    /\ UNCHANGED <<postObj, topicObj, invoked, ret, dbLog>>

MainCidTidsVotes(c, ok) ==
    /\ calls[c].inner[3] = "pending"
    /\ zsets' = IF ok
                THEN MainCidTidsVotesUpdate(zsets, calls[c].topicData, calls[c].postData)
                ELSE zsets
    /\ InnerDone(c, 3, ok, "cid:tids:votes")
    /\ UNCHANGED <<postObj, topicObj, invoked, ret, dbLog>>

\* The global index written only once the topic task has ended.
GlobalTaskAfterTopic(c, ok) ==
    /\ calls[c].global = "pending"
    /\ calls[c].topic \in {"done", "failed"}
    /\ zsets' = IF ok THEN GlobalVotesUpdate(zsets, calls[c].postData) ELSE zsets
    /\ Advance(c, [calls[c] EXCEPT !.global = Status(ok), !.ops = @ + 1], ok, "posts:votes")
    /\ UNCHANGED <<postObj, topicObj, invoked, ret, dbLog>>

\* lines 197-199.
GlobalTask(c, ok) ==
    /\ calls[c].global = "pending"
    /\ zsets' = IF ok THEN GlobalVotesUpdate(zsets, calls[c].postData) ELSE zsets
    /\ Advance(c, [calls[c] EXCEPT !.global = Status(ok), !.ops = @ + 1], ok, "posts:votes")
    /\ UNCHANGED <<postObj, topicObj, invoked, ret, dbLog>>

\* lines 200-205.
FieldsTask(c, ok) ==
    /\ calls[c].fields = "pending"
    /\ postObj' = IF ok THEN PostFieldsUpdate(postObj, calls[c].postData) ELSE postObj
    /\ Advance(c, [calls[c] EXCEPT !.fields = Status(ok), !.ops = @ + 1], ok, "setPostFields")
    /\ UNCHANGED <<zsets, topicObj, invoked, ret, dbLog>>

(***************************************************************************)
(* The state at the start: the topics' chronological sets hold their       *)
(* replies, the vote indices hold topic 2's replies, the counters of the   *)
(* posts that are voted on are zero, no call was made.                     *)
(***************************************************************************)
NoRet == [op |-> "none", err |-> FALSE, val |-> <<>>]

Replies(t) == {p \in AllPids : PostTid[p] = t /\ TopicMainPid[t] # p}

InitZsets ==
    [k \in AllKeys |->
        IF \E t \in Tids : k = KeyTidPosts(t)
        THEN LET t == CHOOSE t \in Tids : k = KeyTidPosts(t)
             IN  [p \in Replies(t) |-> PostTimestamp[p]]
        ELSE IF k = KeyTidPostsVotes(2) \/ k = KeyPostsVotes
        THEN [p \in Replies(2) |-> EarlierVotes[p]]
        ELSE EmptyZset]

InitTopicObj ==
    [t \in Tids |-> [mainPid |-> JsStr(DigitsOf(TopicMainPid[t])), cid |-> TopicCid[t],
                     upvotes |-> 0, downvotes |-> 0]]

Init ==
    /\ zsets = InitZsets
    /\ postObj = [p \in Pids |-> [upvotes |-> 0, downvotes |-> 0]]
    /\ topicObj = InitTopicObj
    /\ calls = [c \in Calls |-> IdleCall]
    /\ applied = [p \in Pids |-> NoPost]
    /\ invoked = 0
    /\ ret = NoRet
    /\ dbLog = <<>>

(***************************************************************************)
(* Spec: invocations one after the other, no backend call failing.         *)
(***************************************************************************)
Next ==
    \/ \E pd \in Inputs : Invoke(1, pd) /\ UNCHANGED invoked
    \/ UserTask(1, TRUE)
    \/ TopicRead(1, TRUE)
    \/ TopicWrite(1, TRUE)
    \/ MainSetTopicFields(1, TRUE)
    \/ MainTopicsVotes(1, TRUE)
    \/ MainCidTidsVotes(1, TRUE)
    \/ GlobalTask(1, TRUE)
    \/ FieldsTask(1, TRUE)

Spec == Init /\ [][Next]_vars

(***************************************************************************)
(* SpecFail: up to MaxInvocations invocations one after the other, until   *)
(* one calls back with an error; any backend call may fail, at most        *)
(* MaxFailures of them per invocation.  A failed call writes nothing and   *)
(* hands its error to the task's callback.                                 *)
(***************************************************************************)
Outcomes(c) == {TRUE} \cup (IF NumFailed(calls[c]) < MaxFailures THEN {FALSE} ELSE {})

NextFail ==
    \/ \E pd \in WellFormedInputs :
          /\ invoked < MaxInvocations
          /\ calls[1].cb # "err"
          /\ Invoke(1, pd)
          /\ invoked' = invoked + 1
    \/ \E ok \in Outcomes(1) : UserTask(1, ok)
    \/ \E ok \in Outcomes(1) : TopicRead(1, ok)
    \/ \E ok \in Outcomes(1) : TopicWrite(1, ok)
    \/ \E ok \in Outcomes(1) : MainSetTopicFields(1, ok)
    \/ \E ok \in Outcomes(1) : MainTopicsVotes(1, ok)
    \/ \E ok \in Outcomes(1) : MainCidTidsVotes(1, ok)
    \/ \E ok \in Outcomes(1) : GlobalTask(1, ok)
    \/ \E ok \in Outcomes(1) : FieldsTask(1, ok)

SpecFail == Init /\ [][NextFail]_vars

(***************************************************************************)
(* The queries.  The backend's batched ranks and its range, the viewer's   *)
(* settings and utils.isNumber are collaborators of src/posts.js.          *)
(***************************************************************************)
\* utils.isNumber: a number, or a string that reads as one.
isNumber(v) == v.t = "number" \/ (v.t = "string" /\ v.s # <<>> /\ StringIsNumeric(v.s))

\* db.sortedSetRanks(key, values): the rank of each value in one set.
sortedSetRanks(zs, key, values) == [i \in DOMAIN values |-> ZRank(zs[key], values[i])]

\* db.sortedSetsRanks(keys, values): the rank of values[i] in the set keys[i].
sortedSetsRanks(zs, keys, values) ==
    [i \in DOMAIN values |-> ZRank(zs[keys[i]], values[i])]

\* The members of a sorted set in ascending order of (score, member).
Ascending(z) ==
    [i \in 1..Cardinality(DOMAIN z) |-> CHOOSE m \in DOMAIN z : ZRank(z, m) = JsNum(i - 1)]

Reverse(seq) == [i \in 1..Len(seq) |-> seq[Len(seq) + 1 - i]]

\* An index the backend can use: an integer, or a string that is one.
IsBackendIndex(v) ==
    \/ v.t = "number" /\ ~v.half
    \/ v.t = "string" /\ ParseIntString(v.s).t = "number"
          /\ DigitPrefixLen(IF Head(v.s) \in {"-", "+"} THEN Tail(v.s) ELSE v.s)
                = Len(IF Head(v.s) \in {"-", "+"} THEN Tail(v.s) ELSE v.s)

\* The members from position start to stop, both counted from the end when negative.
Slice(seq, start, stop) ==
    LET n  == Len(seq)
        lo == IF start < 0 THEN (IF n + start < 0 THEN 0 ELSE n + start) ELSE start
        hi == IF stop < 0 THEN n + stop ELSE (IF stop > n - 1 THEN n - 1 ELSE stop)
    IN  IF lo > hi THEN <<>> ELSE [i \in 1..(hi - lo + 1) |-> seq[lo + i]]

\* db.getSortedSetRange / getSortedSetRevRange: the replies the backend can give.
\* What it does with an index that is no integer is its own affair: an error or
\* an empty range.
RangeReplies(zs, key, start, stop, reversed) ==
    IF IsBackendIndex(start) /\ IsBackendIndex(stop)
    THEN LET all == IF reversed THEN Reverse(Ascending(zs[key])) ELSE Ascending(zs[key])
         IN  {[err |-> FALSE, val |-> Slice(all, ParseInt(start).n, ParseInt(stop).n)]}
    ELSE {[err |-> TRUE, val |-> <<>>], [err |-> FALSE, val |-> <<>>]}

\* user.getSettings: user 1 reads topics by votes, everyone else by age.
getSettings(uid) ==
    [topicPostSort |-> IF uid = 1 THEN "most_votes" ELSE "oldest_to_newest"]

\* One backend call, as dbLog records it.
DbCall(method, keys, members, range) ==
    [method |-> method, keys |-> keys, members |-> members, range |-> range]

\* The guard testing start alone.
RangeGuardStartOnly(start, stop) == IsNaN(start)

\* line 37: the guard of Posts.getPidsFromSet.
RangeGuard(start, stop) == IsNaN(start) \/ IsNaN(stop)

\* line 40: the method the range is read with.
RangeMethod(reverse) == IF Truthy(reverse) THEN "getSortedSetRevRange" ELSE "getSortedSetRange"

\* lines 36-41.
GetPidsFromSet(set, start, stop, reverse) ==
    /\ \E reply \in IF RangeGuard(start, stop)
                    THEN {[err |-> FALSE, val |-> <<>>]}
                    ELSE RangeReplies(zsets, set, start, stop,
                                      RangeMethod(reverse) = "getSortedSetRevRange") :
          ret' = [op |-> "getPidsFromSet",
                  args |-> [set |-> set, start |-> start, stop |-> stop, reverse |-> reverse],
                  err |-> reply.err, val |-> reply.val]
    /\ dbLog' = IF RangeGuard(start, stop) THEN <<>>
                ELSE <<DbCall(RangeMethod(reverse), <<set>>, <<>>, <<start, stop>>)>>
    /\ UNCHANGED <<zsets, postObj, topicObj, calls, applied, invoked>>

\* line 102: the set the position is looked up in.
PidIndexSet(tid, topicPostSort) ==
    IF topicPostSort = "most_votes" THEN KeyTidPostsVotes(tid) ELSE KeyTidPosts(tid)

\* The position without the step from the 0-based rank.
IndexOfRankZeroBased(index) == IF ~isNumber(index) THEN 0 ELSE ParseInt(index).n

\* lines 106-109: the position of a rank.
IndexOfRank(index) == IF ~isNumber(index) THEN 0 ELSE ParseInt(index).n + 1

\* The position looked up by a call that also removes the member from the set.
GetPidIndexRemoving(pid, tid, topicPostSort) ==
    LET set == PidIndexSet(tid, topicPostSort)
    IN  /\ ret' = [op |-> "getPidIndex",
                   args |-> [pid |-> pid, tid |-> tid, topicPostSort |-> topicPostSort],
                   err |-> FALSE, val |-> IndexOfRank(sortedSetRank(zsets, set, pid))]
        /\ dbLog' = <<DbCall("sortedSetRank", <<set>>, <<pid>>, <<>>)>>
        /\ zsets' = sortedSetRemove(zsets, set, pid)
        /\ UNCHANGED <<postObj, topicObj, calls, applied, invoked>>

\* lines 99-112.
GetPidIndex(pid, tid, topicPostSort) ==
    LET set == PidIndexSet(tid, topicPostSort)
    IN  /\ ret' = [op |-> "getPidIndex",
                   args |-> [pid |-> pid, tid |-> tid, topicPostSort |-> topicPostSort],
                   err |-> FALSE, val |-> IndexOfRank(sortedSetRank(zsets, set, pid))]
        /\ dbLog' = <<DbCall("sortedSetRank", <<set>>, <<pid>>, <<>>)>>
        /\ UNCHANGED <<zsets, postObj, topicObj, calls, applied, invoked>>

\* lines 124-127: the set of each post, by the viewer's preference.
PostSets(posts, settings) ==
    [i \in DOMAIN posts |->
        IF settings.topicPostSort = "most_votes"
        THEN KeyTidPostsVotes(posts[i].tid) ELSE KeyTidPosts(posts[i].tid)]

\* The single-set query whatever the sets are.
RankMethodAlwaysSingle(sets) == "sortedSetRanks"

\* lines 129-134: one set for all posts, or a set per post.
RankMethod(sets) ==
    IF Cardinality({sets[i] : i \in DOMAIN sets}) = 1 THEN "sortedSetRanks" ELSE "sortedSetsRanks"

\* line 144: the position of every rank.
IndicesOfRanks(indices) ==
    [i \in DOMAIN indices |->
        IF isNumber(indices[i]) THEN ParseInt(indices[i]).n + 1 ELSE 0]

\* lines 114-150.  posts is [isArray, items]: a value that is no array has no items.
GetPostIndices(posts, uid) ==
    /\ IF ~posts.isArray \/ Len(posts.items) = 0
       THEN /\ ret' = [op |-> "getPostIndices", args |-> [posts |-> posts, uid |-> uid],
                       err |-> FALSE, val |-> <<>>]
            /\ dbLog' = <<>>
       ELSE LET settings == getSettings(uid)
                sets     == PostSets(posts.items, settings)
                method   == RankMethod(sets)
                pids     == [i \in DOMAIN posts.items |-> posts.items[i].pid]
                indices  == IF method = "sortedSetRanks"
                            THEN sortedSetRanks(zsets, sets[1], pids)
                            ELSE sortedSetsRanks(zsets, sets, pids)
            IN  /\ ret' = [op |-> "getPostIndices", args |-> [posts |-> posts, uid |-> uid],
                           err |-> FALSE, val |-> IndicesOfRanks(indices)]
                /\ dbLog' = <<DbCall("getSettings", <<>>, <<uid>>, <<>>),
                              DbCall(method,
                                     IF method = "sortedSetRanks" THEN <<sets[1]>> ELSE sets,
                                     pids, <<>>)>>
    /\ UNCHANGED <<zsets, postObj, topicObj, calls, applied, invoked>>

(***************************************************************************)
(* SpecQuery: one query, on every store that completed vote updates of     *)
(* posts 1 to 3 leave behind (each post not yet voted on, or last applied  *)
(* with one of the tallies).                                               *)
(***************************************************************************)
\* The store after a Posts.updatePostVoteCount(pd) in which every call succeeded.
ApplyVoteCounts(st, pd) ==
    LET td   == getTopicFields(st.topicObj, pd.tid)
        main == IsMainPost(td, pd)
        z1   == IF HasAuthor(pd) THEN UserVotesUpdate(st.zsets, pd) ELSE st.zsets
        z2   == IF main
                THEN MainCidTidsVotesUpdate(MainTopicsVotesUpdate(z1, pd), td, pd)
                ELSE TopicPostsVotesUpdate(z1, pd)
    IN  [zsets |-> GlobalVotesUpdate(z2, pd),
         postObj |-> PostFieldsUpdate(st.postObj, pd),
         topicObj |-> IF main THEN MainTopicFieldsUpdate(st.topicObj, pd) ELSE st.topicObj]

RECURSIVE StoreAfter(_, _)
StoreAfter(last, n) ==
    IF n = 0
    THEN [zsets |-> InitZsets, postObj |-> [p \in Pids |-> [upvotes |-> 0, downvotes |-> 0]],
          topicObj |-> InitTopicObj]
    ELSE IF last[n].present THEN ApplyVoteCounts(StoreAfter(last, n - 1), last[n])
    ELSE StoreAfter(last, n - 1)

LastTallies ==
    {last \in [Pids -> WellFormedInputs \cup {NoPost}] :
        \A p \in Pids : last[p].present => last[p].pid = p}

InitQuery ==
    /\ \E last \in LastTallies :
          /\ applied = last
          /\ zsets = StoreAfter(last, 3).zsets
          /\ postObj = StoreAfter(last, 3).postObj
          /\ topicObj = StoreAfter(last, 3).topicObj
    /\ calls = [c \in Calls |-> IdleCall]
    /\ invoked = 0
    /\ ret = NoRet
    /\ dbLog = <<>>

\* What callers pass as start and stop.
IndexInputs ==
    {JsNum(0), JsNum(1), JsNum(-1), JsHalf(1), JsNaN, JsUndefined, JsNull,
     JsStr(<<"a", "b", "c">>), JsStr(<<"1">>), JsStr(<<>>)}

ReverseInputs == {JsBool(TRUE), JsBool(FALSE), JsUndefined, JsNum(1)}

RangeSets == {KeyPostsVotes, KeyTidPostsVotes(1)}

SortInputs == {"most_votes", "oldest_to_newest", "newest_to_oldest"}

\* The posts a caller asks the positions of: up to MaxPosts of them, or no array.
PostObjects == {[pid |-> p, tid |-> PostTid[p]] : p \in AllPids}

RECURSIVE SeqsUpTo(_, _)
SeqsUpTo(S, n) ==
    IF n = 0 THEN {<<>>}
    ELSE SeqsUpTo(S, n - 1) \cup {Append(q, x) : q \in {r \in SeqsUpTo(S, n - 1) : Len(r) = n - 1}, x \in S}

PostsInputs ==
    {[isArray |-> TRUE, items |-> q] : q \in SeqsUpTo(PostObjects, MaxPosts)}
        \cup {[isArray |-> FALSE, items |-> <<>>]}

Viewers == {1, 2}

NextQuery ==
    \/ \E set \in RangeSets, start \in IndexInputs, stop \in IndexInputs, reverse \in ReverseInputs :
          ret.op = "none" /\ GetPidsFromSet(set, start, stop, reverse)
    \/ \E pid \in AllPids, tid \in Tids, sort \in SortInputs :
          ret.op = "none" /\ GetPidIndex(pid, tid, sort)
    \/ \E posts \in PostsInputs, uid \in Viewers :
          ret.op = "none" /\ GetPostIndices(posts, uid)

SpecQuery == InitQuery /\ [][NextQuery]_vars

(***************************************************************************)
(* Posts.getPostsByPids.  In SpecPosts a stored record 'post:<pid>' holds   *)
(* its fields as the backend hands them back: strings, numbers, or nothing *)
(* at all; a pid outside DOMAIN postObj has no record.  db.getObjects,     *)
(* Posts.parsePost, user.blocks.filter and plugins.fireHook are            *)
(* collaborators of src/posts.js.                                          *)
(***************************************************************************)
\* The entry of a pid without a record, and of a map step that passed nothing on.
AbsentPost ==
    [present |-> FALSE, pid |-> 0, uid |-> 0, upvotes |-> JsUndefined,
     downvotes |-> JsUndefined, votes |-> JsUndefined, edited |-> JsUndefined,
     editedISO |-> ""]

\* A record as read: votes and editedISO are not stored.
RawPost(pid, uid, up, down, edited) ==
    [present |-> TRUE, pid |-> pid, uid |-> uid, upvotes |-> up, downvotes |-> down,
     votes |-> JsUndefined, edited |-> edited, editedISO |-> ""]

\* line 51.
PostKey(pid) == "post:" \o ToString(pid)

\* db.getObjects(keys): the record of every key in the order of the keys, null for
\* a key without one.
getObjects(po, pids) ==
    [i \in DOMAIN pids |-> IF pids[i] \in DOMAIN po THEN po[pids[i]] ELSE AbsentPost]

\* utils.toISOString of a time.
toISOString(v) == "ISO"

\* lines 60-61: parseInt(v, 10) || 0.
ParseIntOrZero(v) ==
    LET n == ParseInt(v) IN IF Truthy(n) THEN n ELSE JsNum(0)

\* line 62: the difference of two numbers.
Minus(a, b) == JsNum(a.n - b.n)

\* line 64: the display form of the edit time, '' for a post never edited.
EditedISO(edited) ==
    IF ~StrictEquals(ParseInt(edited), JsNum(0)) THEN toISOString(edited) ELSE ""

\* lines 56-66: one step of the map.  Posts.parsePost renders the content and
\* passes the post on.
DecoratePost(post) ==
    IF ~post.present THEN AbsentPost
    ELSE LET up   == ParseIntOrZero(post.upvotes)
             down == ParseIntOrZero(post.downvotes)
         IN  [post EXCEPT !.upvotes = up, !.downvotes = down, !.votes = Minus(up, down),
                          !.editedISO = EditedISO(post.edited)]

\* array.filter: the elements whose test holds, in their order.
ArrayFilter(seq, keep) ==
    LET F[i \in 0..Len(seq)] ==
            IF i = 0 THEN <<>>
            ELSE IF keep[i] THEN Append(F[i - 1], seq[i]) ELSE F[i - 1]
    IN  F[Len(seq)]

\* user.blocks.filter(uid, posts): without the posts of the authors the viewer
\* blocked.  Viewer 2 blocked user 1.
BlockedBy(uid) == IF uid = 2 THEN {1} ELSE {}

blocksFilter(uid, posts) ==
    ArrayFilter(posts, [i \in DOMAIN posts |->
                          ~(posts[i].present /\ posts[i].uid \in BlockedBy(uid))])

\* What plugins.fireHook('filter:post.getPosts', {posts, uid}) can call back with:
\* the payload as it was, a payload with the posts rewritten (here an absent entry
\* put in front), null, undefined, an object without posts or with posts that are
\* no array, or an error.
HookModes == {"pass", "rewrite", "null", "undefined", "noPosts", "notArray", "error"}

fireHook(mode, posts) ==
    CASE mode = "pass" -> [err |-> FALSE, t |-> "object", postsT |-> "array", posts |-> posts]
      [] mode = "rewrite" ->
            [err |-> FALSE, t |-> "object", postsT |-> "array", posts |-> <<AbsentPost>> \o posts]
      [] mode = "null" -> [err |-> FALSE, t |-> "null", postsT |-> "undefined", posts |-> <<>>]
      [] mode = "undefined" ->
            [err |-> FALSE, t |-> "undefined", postsT |-> "undefined", posts |-> <<>>]
      [] mode = "noPosts" ->
            [err |-> FALSE, t |-> "object", postsT |-> "undefined", posts |-> <<>>]
      [] mode = "notArray" -> [err |-> FALSE, t |-> "object", postsT |-> "string", posts |-> <<>>]
      [] OTHER -> [err |-> TRUE, t |-> "undefined", postsT |-> "undefined", posts |-> <<>>]

\* line 44: no array, or an empty one.
PidsGuard(pids) == ~pids.isArray \/ Len(pids.items) = 0

\* line 73: the payload of the hook is not one with an array of posts.
PayloadMalformed(data) == data.t \in {"null", "undefined"} \/ data.postsT # "array"

\* The reply to a malformed payload as an error.
MalformedPayloadFails == [err |-> TRUE, val |-> <<>>]

\* line 74: next(null, []).
MalformedPayloadResult == [err |-> FALSE, val |-> <<>>]

\* The posts of the payload as they come.
PayloadPostsUnfiltered(data) == data.posts

\* line 76: data.posts.filter(Boolean).
PayloadPosts(data) ==
    ArrayFilter(data.posts, [i \in DOMAIN data.posts |-> data.posts[i].present])

\* lines 72-78: the last step of the waterfall.
HookResult(data) ==
    IF PayloadMalformed(data) THEN MalformedPayloadResult
    ELSE [err |-> FALSE, val |-> PayloadPosts(data)]

\* lines 43-80.  env says how the collaborators answer: whether db.getObjects
\* fails, and what the hook calls back with.
GetPostsByPids(pids, uid, env) ==
    /\ IF PidsGuard(pids)
       THEN /\ ret' = [op |-> "getPostsByPids", args |-> [pids |-> pids, uid |-> uid, env |-> env],
                       err |-> FALSE, val |-> <<>>]
            /\ dbLog' = <<>>
       ELSE LET keys   == [i \in DOMAIN pids.items |-> PostKey(pids.items[i])]
                read   == getObjects(postObj, pids.items)
                mapped == [i \in DOMAIN read |-> DecoratePost(read[i])]
                shown  == blocksFilter(uid, mapped)
                data   == fireHook(env.hook, shown)
                last   == IF ~env.getObjects \/ data.err
                          THEN [err |-> TRUE, val |-> <<>>] ELSE HookResult(data)
            IN  /\ ret' = [op |-> "getPostsByPids",
                           args |-> [pids |-> pids, uid |-> uid, env |-> env],
                           err |-> last.err, val |-> last.val]
                /\ dbLog' = <<DbCall("getObjects", keys, <<>>, <<>>)>>
                              \o (IF env.getObjects
                                  THEN <<DbCall("fireHook", <<>>, <<uid>>, <<>>)>> ELSE <<>>)
    /\ UNCHANGED <<zsets, postObj, topicObj, calls, applied, invoked>>

(***************************************************************************)
(* SpecPosts: one Posts.getPostsByPids, on every store of records.         *)
(***************************************************************************)
\* What a record can hold as upvotes and downvotes: nothing, digits, a negative
\* count, text, a number, null.
StoredUpvotes ==
    {JsUndefined, JsStr(<<"2">>), JsStr(<<"-", "3">>), JsStr(<<"a", "b", "c">>), JsNum(1),
     JsNull, JsStr(<<"0">>)}

StoredDownvotes == {JsUndefined, JsStr(<<"1">>), JsStr(<<"-", "1">>)}

StoredEdited == {JsStr(<<"0">>), JsNum(70)}

\* The stores: post 1 (of user 1) with any fields or without a record, post 2 (a
\* guest's) with one record or without; post 3 has no record.
PostStores ==
    {[p \in D |-> IF p = 1 THEN r ELSE RawPost(2, PostUid[2], JsStr(<<"2">>), JsStr(<<"1">>), JsStr(<<"0">>))] :
        D \in SUBSET {1, 2},
        r \in {RawPost(1, PostUid[1], u, d, e) :
                  u \in StoredUpvotes, d \in StoredDownvotes, e \in StoredEdited}}

InitPosts ==
    /\ postObj \in PostStores
    /\ zsets = InitZsets
    /\ topicObj = InitTopicObj
    /\ calls = [c \in Calls |-> IdleCall]
    /\ applied = [p \in Pids |-> NoPost]
    /\ invoked = 0
    /\ ret = NoRet
    /\ dbLog = <<>>

PidsInputs ==
    {[isArray |-> TRUE, items |-> q] : q \in SeqsUpTo(Pids, MaxPids)}
        \cup {[isArray |-> FALSE, items |-> <<>>]}

Envs == [getObjects : BOOLEAN, hook : HookModes]

NextPosts ==
    \E pids \in PidsInputs, uid \in Viewers, env \in Envs :
        ret.op = "none" /\ GetPostsByPids(pids, uid, env)

SpecPosts == InitPosts /\ [][NextPosts]_vars

(***************************************************************************)
(* SpecOverlap: two invocations, each made once, that may overlap or       *)
(* follow each other, on the same post or on two; no backend call fails.   *)
(* The store at the start is the initial one, or the one in which every    *)
(* post was applied with one upvote.                                       *)
(***************************************************************************)
StartTallies ==
    {[p \in Pids |-> NoPost],
     [p \in Pids |-> PostData(p, PostTid[p], PostUid[p], MaxUpvotes, 0)]}

InitOverlap ==
    /\ \E last \in StartTallies :
          /\ applied = last
          /\ zsets = StoreAfter(last, 3).zsets
          /\ postObj = StoreAfter(last, 3).postObj
          /\ topicObj = StoreAfter(last, 3).topicObj
    /\ calls = [c \in Calls |-> IdleCall]
    /\ invoked = 0
    /\ ret = NoRet
    /\ dbLog = <<>>

NextOverlap ==
    \/ \E c \in Calls, pd \in WellFormedInputs :
          /\ calls[c].st = "idle"
          /\ c = 2 => calls[1].st = "called"
          /\ Invoke(c, pd)
          /\ invoked' = invoked + 1
    \/ \E c \in Calls : UserTask(c, TRUE)
    \/ \E c \in Calls : TopicRead(c, TRUE)
    \/ \E c \in Calls : TopicWrite(c, TRUE)
    \/ \E c \in Calls : MainSetTopicFields(c, TRUE)
    \/ \E c \in Calls : MainTopicsVotes(c, TRUE)
    \/ \E c \in Calls : MainCidTidsVotes(c, TRUE)
    \/ \E c \in Calls : GlobalTask(c, TRUE)
    \/ \E c \in Calls : FieldsTask(c, TRUE)

SpecOverlap == InitOverlap /\ [][NextOverlap]_vars

(***************************************************************************)
(* Posts.modifyPostByPrivilege(post, privileges).  A post has the flags     *)
(* deleted and selfPost, its content, and maybe the author's user object   *)
(* with a signature; privileges maps 'posts:view_deleted' to a flag.       *)
(***************************************************************************)
Placeholder == "[[topic:post_is_deleted]]"

NoUser == [present |-> FALSE, signature |-> ""]
UserObject(signature) == [present |-> TRUE, signature |-> signature]

\* The test with the author's exemption left out.
MustRedactIgnoringSelf(post, privileges) ==
    Truthy(post.deleted) /\ ~Truthy(privileges["posts:view_deleted"])

\* line 212.
MustRedact(post, privileges) ==
    Truthy(post.deleted)
        /\ ~(Truthy(post.selfPost) \/ Truthy(privileges["posts:view_deleted"]))

\* lines 213-216: the placeholder for the content, and no signature.
Redacted(post) ==
    [post EXCEPT !.content = Placeholder,
                 !.user = IF post.user.present THEN [@ EXCEPT !.signature = ""] ELSE @]

\* lines 211-218: the post as the call leaves it.
ModifyPostByPrivilege(post, privileges) ==
    /\ ret' = [op |-> "modifyPostByPrivilege",
               args |-> [post |-> post, privileges |-> privileges],
               err |-> FALSE,
               val |-> IF MustRedact(post, privileges) THEN Redacted(post) ELSE post]
    /\ dbLog' = <<>>
    /\ UNCHANGED <<zsets, postObj, topicObj, calls, applied, invoked>>

(***************************************************************************)
(* SpecPrivilege: one Posts.modifyPostByPrivilege, on every post and       *)
(* every privilege flag.                                                   *)
(***************************************************************************)
FlagInputs == {JsBool(TRUE), JsBool(FALSE), JsUndefined, JsNum(1), JsNum(0)}

ViewedPosts ==
    [deleted : FlagInputs, selfPost : FlagInputs, content : {"hello", ""},
     user : {NoUser, UserObject("sig"), UserObject("")}]

PrivilegeInputs == {[k \in {"posts:view_deleted"} |-> v] : v \in FlagInputs}

NextPrivilege ==
    \E post \in ViewedPosts, privileges \in PrivilegeInputs :
        ret.op = "none" /\ ModifyPostByPrivilege(post, privileges)

SpecPrivilege == Init /\ [][NextPrivilege]_vars

(***************************************************************************)
(* SpecRepeat: Posts.getPidIndex called again and again, on every store    *)
(* that completed vote updates leave behind.                               *)
(***************************************************************************)
NextRepeat ==
    \E pid \in AllPids, tid \in Tids, sort \in SortInputs : GetPidIndex(pid, tid, sort)

SpecRepeat == InitQuery /\ [][NextRepeat]_vars

(***************************************************************************)
(* What the claims speak of.                                               *)
(***************************************************************************)
\* Post pd.pid opened topic pd.tid.
MainOfItsTopic(pd) == pd.tid \in Tids /\ TopicMainPid[pd.tid] = pd.pid

\* There is no post, or its pid or tid is missing or zero.
MissingIds(pd) == ~pd.present \/ pd.pid = 0 \/ pd.tid = 0

\* No invocation has a backend call outstanding.
AllQuiescent == \A c \in Calls : Quiescent(calls[c])

\* Slot c holds an invocation that passed the guard.
Accepted(c) == calls[c].st = "called" /\ ~MissingIds(calls[c].postData)

\* This step is a backend call of the invocation in slot c.
StepOf(c) == calls'[c].ops = calls[c].ops + 1

HasScore(key, member, score) ==
    IsMember(zsets, key, member) /\ Score(zsets, key, member) = score

\* C1.  Between invocations, every post last applied with tally V has: as a reply,
\* score V in its topic's per-topic index; as a main post, its topic at score V in
\* 'topics:votes' and in its category's index, and the topic's stored upvotes and
\* downvotes equal to the post's.
C1_IndicesMatchTally ==
    AllQuiescent =>
        \A p \in Pids :
            LET pd == applied[p]
            IN  pd.present =>
                  IF MainOfItsTopic(pd)
                  THEN /\ HasScore(KeyTopicsVotes, pd.tid, pd.votes)
                       /\ HasScore(KeyCidTidsVotes(topicObj[pd.tid].cid), pd.tid, pd.votes)
                       /\ topicObj[pd.tid].upvotes = pd.upvotes
                       /\ topicObj[pd.tid].downvotes = pd.downvotes
                       /\ postObj[p].upvotes = pd.upvotes
                       /\ postObj[p].downvotes = pd.downvotes
                  ELSE HasScore(KeyTidPostsVotes(pd.tid), p, pd.votes)

\* The main post and both replies have been applied, the main post last with a
\* tally other than the topic's initial zero and other than the replies'.
C1_Witness ==
    /\ AllQuiescent
    /\ applied[1].present /\ applied[1].votes = 1 /\ MainOfItsTopic(applied[1])
    /\ applied[2].present /\ applied[2].votes = -1 /\ ~MainOfItsTopic(applied[2])
    /\ applied[3].present /\ applied[3].upvotes = 1 /\ applied[3].downvotes = 1

\* C2.  Between invocations, a post with an author that was last applied with
\* votes <= 0 is absent from the author's per-user index, and one last applied with
\* votes > 0 is in it with score votes.
C2_UserIndexMatchesSign ==
    AllQuiescent =>
        \A p \in Pids :
            LET pd == applied[p]
            IN  (pd.present /\ pd.uid # 0) =>
                  IF pd.votes > 0
                  THEN HasScore(KeyUidPostsVotes(pd.uid), p, pd.votes)
                  ELSE ~IsMember(zsets, KeyUidPostsVotes(pd.uid), p)

\* Post 3 goes from a positive tally to a negative one: its stored counters are
\* still those of the completed positive update (so it was in the index), the
\* per-user task of the new invocation has run, and the post is gone from the index.
C2_Witness ==
    /\ Accepted(1)
    /\ calls[1].postData.pid = 3 /\ calls[1].postData.votes = -1
    /\ calls[1].user = "done" /\ calls[1].fields = "pending"
    /\ applied[3].present /\ applied[3].votes = 1
    /\ postObj[3] = [upvotes |-> 1, downvotes |-> 0]
    /\ ~IsMember(zsets, KeyUidPostsVotes(1), 3)

\* The keys of the topic-level vote indices.
TopicVoteKeys == {KeyTopicsVotes} \cup {KeyCidTidsVotes(c) : c \in Cids}

\* C3 as amended.  A backend call of an invocation for a reply changes nothing but
\* the post's entry in 'posts:votes', in its topic's per-topic index and in its
\* author's per-user index (when it has an author), and the post's own stored
\* counters; 'topics:votes', the category indices and the topic records are unchanged.
C3_ReplyTouchesNoTopicIndex ==
    [][\A c \in Calls :
         (StepOf(c) /\ ~MainOfItsTopic(calls[c].postData)) =>
            LET pd == calls[c].postData
                own == {KeyPostsVotes, KeyTidPostsVotes(pd.tid)}
                          \cup (IF pd.uid # 0 THEN {KeyUidPostsVotes(pd.uid)} ELSE {})
            IN  /\ \A k \in TopicVoteKeys : zsets'[k] = zsets[k]
                /\ topicObj' = topicObj
                /\ \A k \in AllKeys \ own : zsets'[k] = zsets[k]
                /\ \A k \in own : \A m \in (DOMAIN zsets[k] \cup DOMAIN zsets'[k]) \ {pd.pid} :
                        /\ m \in DOMAIN zsets[k] /\ m \in DOMAIN zsets'[k]
                        /\ zsets'[k][m] = zsets[k][m]
                /\ \A q \in Pids \ {pd.pid} : postObj'[q] = postObj[q]]_vars

\* C3 as stated: a backend call of an invocation for a reply changes nothing besides
\* 'posts:votes' and the topic's per-topic index.
C3_ReplyTouchesOnlyTwoIndices ==
    [][\A c \in Calls :
         (StepOf(c) /\ ~MainOfItsTopic(calls[c].postData)) =>
            LET pd == calls[c].postData
            IN  /\ \A k \in AllKeys \ {KeyPostsVotes, KeyTidPostsVotes(pd.tid)} :
                        zsets'[k] = zsets[k]
                /\ topicObj' = topicObj
                /\ postObj' = postObj]_vars

\* The reply of topic 1 has been applied with a tally that differs from the one
\* the topic's indices hold for the main post.
C3_Witness ==
    /\ AllQuiescent
    /\ Accepted(1) /\ calls[1].postData.pid = 2 /\ calls[1].cb = "ok"
    /\ calls[1].postData.votes = -1
    /\ HasScore(KeyPostsVotes, 2, -1)
    /\ HasScore(KeyTidPostsVotes(1), 2, -1)
    /\ HasScore(KeyTopicsVotes, 1, 1)
    /\ HasScore(KeyCidTidsVotes(1), 1, 1)

\* C4.  A topic's main post is never a member of the topic's per-topic index.
C4_MainPostNotInTopicIndex ==
    \A t \in Tids : \A p \in Pids :
        MainOfItsTopic(PostData(p, t, 0, 0, 0)) => ~IsMember(zsets, KeyTidPostsVotes(t), p)

\* The main post of topic 1 has been applied, and a reply sits in the topic's index.
C4_Witness ==
    /\ AllQuiescent
    /\ applied[1].present /\ MainOfItsTopic(applied[1])
    /\ HasScore(KeyPostsVotes, 1, 1)
    /\ IsMember(zsets, KeyTidPostsVotes(1), 2)

\* C5.  Between invocations, every post last applied with tally V has score V in
\* 'posts:votes'.
C5_GlobalIndexHoldsTally ==
    AllQuiescent =>
        \A p \in Pids : applied[p].present => HasScore(KeyPostsVotes, p, applied[p].votes)

\* A main post with a positive tally, a guest's reply with a negative one and an
\* authored reply with tally zero have been applied.
C5_Witness ==
    /\ AllQuiescent
    /\ applied[1].present /\ applied[1].votes = 1
    /\ applied[2].present /\ applied[2].votes = -1 /\ applied[2].uid = 0
    /\ applied[3].present /\ applied[3].votes = 0 /\ applied[3].uid # 0

\* The stored state: indices and records.
store == <<zsets, postObj, topicObj>>

\* C6.  An invocation without a post, or with a post whose pid or tid is missing or
\* zero, calls back at once without an error, makes no backend call and leaves the
\* store unchanged.
C6_RejectedInputIsNoOp ==
    [][\A c \in Calls :
         (calls'[c] # calls[c] /\ MissingIds(calls'[c].postData)) =>
            /\ store' = store
            /\ calls'[c].cb = "ok" /\ calls'[c].err = "" /\ calls'[c].ncb = 1
            /\ calls'[c].ops = 0
            /\ Quiescent(calls'[c])]_vars

\* A post without a pid was passed after the store had been filled.
C6_Witness ==
    /\ calls[1].st = "called"
    /\ calls[1].postData.present /\ calls[1].postData.pid = 0 /\ calls[1].postData.tid # 0
    /\ calls[1].cb = "ok"
    /\ applied[1].present /\ applied[3].present
    /\ HasScore(KeyPostsVotes, 1, 1)

\* The backend calls an invocation makes when none is skipped: the per-user call
\* for a post with an author, the topic read and what follows it (nothing after a
\* failed read, three writes for a main post, one for a reply), the global index
\* and the post's counters.
ExpectedOps(call) ==
    (IF call.postData.uid # 0 THEN 1 ELSE 0)
        + (IF call.topicData = NoTopicData THEN 1
           ELSE IF MainOfItsTopic(call.postData) THEN 4 ELSE 2)
        + 2

\* The write of every backend call of the invocation that succeeded is in the store.
WritesKept(call) ==
    LET pd == call.postData
    IN  /\ (call.user = "done" /\ pd.uid # 0) =>
               IF pd.votes > 0
               THEN HasScore(KeyUidPostsVotes(pd.uid), pd.pid, pd.votes)
               ELSE ~IsMember(zsets, KeyUidPostsVotes(pd.uid), pd.pid)
        /\ (call.topic = "done" /\ ~MainOfItsTopic(pd)) =>
               HasScore(KeyTidPostsVotes(pd.tid), pd.pid, pd.votes)
        /\ call.inner[1] = "done" =>
               /\ topicObj[pd.tid].upvotes = pd.upvotes
               /\ topicObj[pd.tid].downvotes = pd.downvotes
        /\ call.inner[2] = "done" => HasScore(KeyTopicsVotes, pd.tid, pd.votes)
        /\ call.inner[3] = "done" =>
               HasScore(KeyCidTidsVotes(call.topicData.cid), pd.tid, pd.votes)
        /\ call.global = "done" => HasScore(KeyPostsVotes, pd.pid, pd.votes)
        /\ call.fields = "done" =>
               postObj[pd.pid] = [upvotes |-> pd.upvotes, downvotes |-> pd.downvotes]

\* C7.  Once a backend call of an invocation has failed, the callback has received
\* that first error, once; the other sub-updates are not cancelled (when nothing is
\* outstanding any more, every backend call of the invocation has been made) and
\* the writes of those that succeeded stay in the store.
C7_ErrorReportedWritesKept ==
    \A c \in Calls :
        Accepted(c) =>
            LET call == calls[c]
            IN  /\ call.firstErr # "" =>
                      call.cb = "err" /\ call.err = call.firstErr /\ call.ncb = 1
                /\ call.cb = "err" => call.firstErr # ""
                /\ Quiescent(call) =>
                      /\ call.ops = ExpectedOps(call)
                      /\ \A k \in {"user", "topic", "global", "fields"} :
                            call[k] \in {"done", "failed"}
                /\ WritesKept(call)

\* An invocation for the reply of topic 1 has ended with an error: 'posts:votes'
\* holds the new score, the per-topic index still the one applied before.
C7_Witness ==
    /\ AllQuiescent
    /\ Accepted(1) /\ calls[1].postData.pid = 2 /\ calls[1].cb = "err"
    /\ applied[2].present /\ applied[2].votes # calls[1].postData.votes
    /\ HasScore(KeyPostsVotes, 2, calls[1].postData.votes)
    /\ HasScore(KeyTidPostsVotes(1), 2, applied[2].votes)
    /\ calls[1].fields = "done" /\ calls[1].topic = "failed"

\* The number of members of the set at key that come before member, by score and
\* then by member.
MembersBefore(key, member) ==
    Cardinality({m \in DOMAIN zsets[key] :
        \/ zsets[key][m] < zsets[key][member]
        \/ zsets[key][m] = zsets[key][member] /\ m < member})

\* The 1-based position of member in the set at key, 0 when it is not in it.
PositionIn(key, member) ==
    IF member \in DOMAIN zsets[key] THEN MembersBefore(key, member) + 1 ELSE 0

\* The per-topic set a sort order reads.
TopicSetFor(tid, sort) ==
    IF sort = "most_votes"
    THEN "tid:" \o ToString(tid) \o ":posts:votes"
    ELSE "tid:" \o ToString(tid) \o ":posts"

\* C8.  Posts.getPidIndex asks the backend once, for the rank of pid in
\* 'tid:<tid>:posts:votes' when the sort is 'most_votes' and in 'tid:<tid>:posts'
\* otherwise, and calls back without error with a number: rank + 1 (at least 1) for
\* a member, 0 for an absent pid.
C8_PidIndexIsPosition ==
    ret.op = "getPidIndex" =>
        LET a   == ret.args
            key == TopicSetFor(a.tid, a.topicPostSort)
        IN  /\ dbLog = <<DbCall("sortedSetRank", <<key>>, <<a.pid>>, <<>>)>>
            /\ ~ret.err
            /\ ret.val \in Nat
            /\ ret.val = PositionIn(key, a.pid)
            /\ (a.pid \in DOMAIN zsets[key]) <=> (ret.val >= 1)

\* Post 2 is second by votes in topic 1 and first by age.
C8_Witness ==
    /\ ret.op = "getPidIndex"
    /\ ret.args = [pid |-> 2, tid |-> 1, topicPostSort |-> "most_votes"]
    /\ ret.val = 2
    /\ PositionIn(KeyTidPosts(1), 2) = 1

\* C9.  Posts.getPostIndices returns, for an array of posts, the positions of the
\* posts in their own topics' sets by the viewer's sort preference, in the order of
\* the posts; it reads the settings once and asks the backend once, with the
\* single-set query when all posts are of one topic and the per-post set list
\* otherwise.  For an empty array or no array it returns the empty sequence and
\* calls no collaborator.
C9_PostIndicesArePositions ==
    ret.op = "getPostIndices" =>
        LET posts == ret.args.posts
            items == posts.items
            sort  == getSettings(ret.args.uid).topicPostSort
            keys  == [i \in DOMAIN items |-> TopicSetFor(items[i].tid, sort)]
            pids  == [i \in DOMAIN items |-> items[i].pid]
            one   == \A i, j \in DOMAIN items : items[i].tid = items[j].tid
        IN  /\ ~ret.err
            /\ IF ~posts.isArray \/ items = <<>>
               THEN ret.val = <<>> /\ dbLog = <<>>
               ELSE /\ Len(ret.val) = Len(items)
                    /\ \A i \in DOMAIN items : ret.val[i] = PositionIn(keys[i], pids[i])
                    /\ Len(dbLog) = 2
                    /\ dbLog[1] = DbCall("getSettings", <<>>, <<ret.args.uid>>, <<>>)
                    /\ dbLog[2] = IF one
                                  THEN DbCall("sortedSetRanks", <<keys[1]>>, pids, <<>>)
                                  ELSE DbCall("sortedSetsRanks", keys, pids, <<>>)

\* A viewer who sorts by votes asks for a reply of topic 1 and a reply of topic 2,
\* both second in their topics.
C9_Witness ==
    /\ ret.op = "getPostIndices"
    /\ ret.args.uid = 1
    /\ ret.args.posts.items = <<[pid |-> 2, tid |-> 1], [pid |-> 5, tid |-> 2]>>
    /\ ret.val = <<2, 2>>
    /\ dbLog[2].method = "sortedSetsRanks"

\* A value that is an integer index: an integer, or a string that reads as one.
IsIntegerIndex(v) == IsBackendIndex(v)

RECURSIVE StoredPidsOf(_)
StoredPidsOf(items) ==
    IF items = <<>> THEN <<>>
    ELSE IF Head(items) \in DOMAIN postObj
    THEN <<Head(items)>> \o StoredPidsOf(Tail(items))
    ELSE StoredPidsOf(Tail(items))

\* The backend read and the hook of the query answered without an error.
CollaboratorsAnswered == ret.args.env.getObjects /\ ret.args.env.hook # "error"

\* The block filter and the hook of the query passed the posts on as they were.
PassThroughs == ret.args.env.hook = "pass" /\ ret.args.uid = 1

\* C11.  When the backend read and the hook answer, Posts.getPostsByPids calls back
\* without an error and with no absent entry in the sequence, whether or not every
\* pid has a record; when the block filter and the hook pass the posts on, the
\* sequence holds exactly the records of the pids that have one, in the order of
\* the pids.
C11_AbsentRecordsDropped ==
    (ret.op = "getPostsByPids" /\ CollaboratorsAnswered) =>
        /\ ~ret.err
        /\ \A i \in DOMAIN ret.val : ret.val[i].present /\ ret.val[i].pid \in DOMAIN postObj
        /\ PassThroughs =>
              [i \in DOMAIN ret.val |-> ret.val[i].pid] = StoredPidsOf(ret.args.pids.items)

\* Posts 2 and 1 have records, post 3 between them has none: two posts come back,
\* post 2 first.
C11_Witness ==
    /\ ret.op = "getPostsByPids" /\ CollaboratorsAnswered /\ PassThroughs
    /\ ret.args.pids.items = <<2, 3, 1>>
    /\ DOMAIN postObj = {1, 2}
    /\ Len(ret.val) = 2 /\ ret.val[1].pid = 2 /\ ret.val[2].pid = 1

\* C14.  Every record Posts.getPostsByPids hands back has upvotes and downvotes that
\* are integers of at least 0, and votes = upvotes - downvotes, whatever the record
\* holds.
C14_CountersNonNegative ==
    (ret.op = "getPostsByPids" /\ CollaboratorsAnswered) =>
        \A i \in DOMAIN ret.val :
            LET post == ret.val[i]
            IN  /\ post.upvotes.t = "number" /\ ~post.upvotes.half /\ post.upvotes.n >= 0
                /\ post.downvotes.t = "number" /\ ~post.downvotes.half /\ post.downvotes.n >= 0
                /\ post.votes = JsNum(post.upvotes.n - post.downvotes.n)

\* A hook answer that is no payload with an array of posts.
MalformedHookAnswers == {"null", "undefined", "noPosts", "notArray"}

\* C16.  When the hook calls back with null, undefined, an object without posts or
\* with posts that are no array, Posts.getPostsByPids calls back without an error
\* and with the empty sequence.
C16_MalformedPayloadIsEmpty ==
    (ret.op = "getPostsByPids" /\ ret.args.env.getObjects
        /\ ret.args.env.hook \in MalformedHookAnswers) =>
            ~ret.err /\ ret.val = <<>>

\* Both posts asked for have records, the hook answers with posts that are no
\* array: nothing comes back, and no error.
C16_Witness ==
    /\ ret.op = "getPostsByPids" /\ ret.args.env.getObjects
    /\ ret.args.env.hook = "notArray"
    /\ ret.args.pids.items = <<1, 2>> /\ DOMAIN postObj = {1, 2}
    /\ Len(dbLog) = 2
    /\ ~ret.err /\ ret.val = <<>>

\* The stored counters of post p and every index entry of p are those of one
\* tally: with V the stored upvotes less the stored downvotes, p has score V in
\* 'posts:votes'; a reply has score V in its topic's index; a main post's topic has
\* score V in 'topics:votes' and in its category's index, and the post's counters as
\* its own; a post with an author is in the author's index with score V when V > 0
\* and not in it otherwise.
OneTally(p) ==
    LET up == postObj[p].upvotes
        down == postObj[p].downvotes
        V == up - down
        t == PostTid[p]
    IN  /\ HasScore(KeyPostsVotes, p, V)
        /\ IF TopicMainPid[t] = p
           THEN /\ HasScore(KeyTopicsVotes, t, V)
                /\ HasScore(KeyCidTidsVotes(TopicCid[t]), t, V)
                /\ topicObj[t].upvotes = up /\ topicObj[t].downvotes = down
           ELSE HasScore(KeyTidPostsVotes(t), p, V)
        /\ PostUid[p] # 0 =>
              IF V > 0 THEN HasScore(KeyUidPostsVotes(PostUid[p]), p, V)
              ELSE ~IsMember(zsets, KeyUidPostsVotes(PostUid[p]), p)

\* C12.  Once every invocation has completed, the stored counters and all index
\* entries of every post that was applied are those of one tally, also after two
\* invocations for the post that overlapped.
C12_OverlappingCallsConverge ==
    AllQuiescent => \A p \in Pids : applied[p].present => OneTally(p)

\* The entry of member in the set at key is the one the tally last applied for
\* post p left: score votes, or none when p was never applied.
HoldsApplied(key, member, p) ==
    IF applied[p].present THEN HasScore(key, member, applied[p].votes)
    ELSE ~IsMember(zsets, key, member)

\* The topic-scoped index entry an invocation for pd writes: the post in its
\* topic's index, or for a main post the topic in 'topics:votes'.
TopicEntryKey(pd) == IF MainOfItsTopic(pd) THEN KeyTopicsVotes ELSE KeyTidPostsVotes(pd.tid)
TopicEntryMember(pd) == IF MainOfItsTopic(pd) THEN pd.tid ELSE pd.pid

\* Whether the invocation has written, or has still to write, that entry.
TopicEntryWritten(call) ==
    IF MainOfItsTopic(call.postData) THEN call.inner[2] = "done" ELSE call.topic = "done"

TopicEntryOutstanding(call) ==
    IF MainOfItsTopic(call.postData) THEN call.inner[2] = "pending"
    ELSE call.topic = "sortedSetAdd"

\* C13.  While one invocation is in flight, the write of 'posts:votes' and the write
\* of the topic-scoped index entry have no order: when both are outstanding either
\* can be applied next; after the first alone 'posts:votes' holds the new score and
\* the topic-scoped entry the old one, after the second alone it is the other way
\* round.
C13_SubUpdatesInAnyOrder ==
    Accepted(1) =>
        LET call == calls[1]
            pd   == call.postData
        IN  /\ (call.global = "pending" /\ TopicEntryOutstanding(call)) =>
                  /\ ENABLED GlobalTask(1, TRUE)
                  /\ IF MainOfItsTopic(pd) THEN ENABLED MainTopicsVotes(1, TRUE)
                     ELSE ENABLED TopicWrite(1, TRUE)
            /\ (call.global = "done" /\ ~TopicEntryWritten(call)) =>
                  /\ HasScore(KeyPostsVotes, pd.pid, pd.votes)
                  /\ HoldsApplied(TopicEntryKey(pd), TopicEntryMember(pd), pd.pid)
            /\ (call.global = "pending" /\ TopicEntryWritten(call)) =>
                  /\ HasScore(TopicEntryKey(pd), TopicEntryMember(pd), pd.votes)
                  /\ HoldsApplied(KeyPostsVotes, pd.pid, pd.pid)

\* An invocation for the reply of topic 1 is in flight: 'posts:votes' holds its new
\* score -1, the topic's index still the score 1 applied before.
C13_Witness ==
    /\ Accepted(1) /\ calls[1].postData.pid = 2 /\ calls[1].postData.votes = -1
    /\ calls[1].global = "done" /\ calls[1].topic = "sortedSetAdd"
    /\ applied[2].present /\ applied[2].votes = 1
    /\ HasScore(KeyPostsVotes, 2, -1)
    /\ HasScore(KeyTidPostsVotes(1), 2, 1)

\* The opposite order, for a main post: 'topics:votes' holds the new score of the
\* topic, 'posts:votes' still the old score of the post.
C13_WitnessTopicFirst ==
    /\ Accepted(1) /\ calls[1].postData.pid = 1 /\ calls[1].postData.votes = -1
    /\ calls[1].global = "pending" /\ calls[1].inner[2] = "done"
    /\ applied[1].present /\ applied[1].votes = 1
    /\ HasScore(KeyTopicsVotes, 1, -1)
    /\ HasScore(KeyPostsVotes, 1, 1)

\* A flag that is set: true, or 1.
IsSet(v) == v = JsBool(TRUE) \/ v = JsNum(1)

\* C15.  Posts.modifyPostByPrivilege puts the placeholder in place of the content
\* and, when the post has a user object, the empty string in place of its signature
\* if and only if the post is deleted and the viewer is neither its author nor
\* allowed to view deleted posts; otherwise it leaves the post as it was.  Nothing
\* else of the post changes either way.
C15_RedactedIffDeletedAndUnprivileged ==
    ret.op = "modifyPostByPrivilege" =>
        LET post   == ret.args.post
            out    == ret.val
            hidden == IsSet(post.deleted)
                        /\ ~IsSet(post.selfPost)
                        /\ ~IsSet(ret.args.privileges["posts:view_deleted"])
        IN  /\ out.deleted = post.deleted /\ out.selfPost = post.selfPost
            /\ out.user.present = post.user.present
            /\ IF hidden
               THEN /\ out.content = "[[topic:post_is_deleted]]"
                    /\ out.user.present => out.user.signature = ""
               ELSE out.content = post.content /\ out.user = post.user

\* A deleted post of someone else with content and a signature, seen by a viewer
\* without the privilege: both are gone.
C15_Witness ==
    /\ ret.op = "modifyPostByPrivilege"
    /\ ret.args.post.deleted = JsBool(TRUE) /\ ret.args.post.selfPost = JsBool(FALSE)
    /\ ret.args.privileges["posts:view_deleted"] = JsBool(FALSE)
    /\ ret.args.post.content = "hello" /\ ret.args.post.user = UserObject("sig")
    /\ ret.val.content = "[[topic:post_is_deleted]]"
    /\ ret.val.user = UserObject("")

\* C17.  A Posts.getPidIndex call leaves every ordered index and every record as
\* it was, and a call that follows another returns, for the arguments of an earlier
\* call answered on the same indices, the value that call returned.
C17_PidIndexReadOnlyIdempotent ==
    [][ret'.op = "getPidIndex" =>
          /\ zsets' = zsets /\ postObj' = postObj /\ topicObj' = topicObj
          /\ ret'.val = PositionIn(TopicSetFor(ret'.args.tid, ret'.args.topicPostSort),
                                   ret'.args.pid)
          /\ (ret.op = "getPidIndex" /\ ret'.args = ret.args) => ret'.val = ret.val]_vars

\* The position of post 2 by votes was asked for after other positions had been:
\* it is second of the two replies in the topic's index.
C17_Witness ==
    /\ ret.op = "getPidIndex"
    /\ ret.args = [pid |-> 2, tid |-> 1, topicPostSort |-> "most_votes"]
    /\ ret.val = 2
    /\ DOMAIN zsets[KeyTidPostsVotes(1)] = {2, 3}

\* The keys of the per-user indices, the one a post without author would name too.
UserVoteKeys == {"uid:" \o ToString(u) \o ":posts:votes" : u \in {0, 1}}

\* C18.  No step of an invocation for a post without an author changes a per-user
\* index, and the invocation makes no per-user call; when it calls back, the post
\* has the new score in 'posts:votes' and in its topic's index (a reply), and the
\* new counters in its record.
C18_NoAuthorNoUserIndex ==
    [][\A c \in Calls :
         (calls'[c] # calls[c] /\ ~MissingIds(calls'[c].postData)
             /\ calls'[c].postData.uid = 0) =>
            LET pd == calls'[c].postData
            IN  /\ \A k \in UserVoteKeys : zsets'[k] = zsets[k]
                /\ calls'[c].user # "pending"
                /\ (calls'[c].cb = "ok" /\ ~MainOfItsTopic(pd)) =>
                      /\ calls'[c].ops = 4
                      /\ pd.pid \in DOMAIN zsets'[KeyPostsVotes]
                      /\ zsets'[KeyPostsVotes][pd.pid] = pd.votes
                      /\ pd.pid \in DOMAIN zsets'[KeyTidPostsVotes(pd.tid)]
                      /\ zsets'[KeyTidPostsVotes(pd.tid)][pd.pid] = pd.votes
                      /\ postObj'[pd.pid] = [upvotes |-> pd.upvotes, downvotes |-> pd.downvotes]]_vars

\* The guest's reply was applied with a positive tally while the per-user index of
\* user 1 holds a post: the reply is in 'posts:votes' and in no per-user index.
C18_Witness ==
    /\ AllQuiescent
    /\ Accepted(1) /\ calls[1].postData.pid = 2 /\ calls[1].postData.uid = 0
    /\ calls[1].postData.votes = 1 /\ calls[1].cb = "ok"
    /\ HasScore(KeyPostsVotes, 2, 1)
    /\ HasScore(KeyUidPostsVotes(1), 3, 1)
    /\ \A k \in UserVoteKeys : 2 \notin DOMAIN zsets[k]

\* The callback of the invocation in slot c was called at most once, and once when
\* nothing of the invocation is outstanding; when it was called without an error,
\* nothing is outstanding, no backend call failed, every backend call of the
\* invocation has been made and every write is in the store.
CalledBackOnce(c) ==
    LET call == calls[c]
    IN  call.st = "called" =>
          /\ call.ncb <= 1
          /\ (call.ncb = 1) <=> (call.cb # "none")
          /\ Quiescent(call) => call.ncb = 1
          /\ (call.cb = "ok" /\ ~MissingIds(call.postData)) =>
                /\ Quiescent(call)
                /\ call.firstErr = ""
                /\ call.ops = ExpectedOps(call)
                /\ call.user = "done" /\ call.topic = "done"
                /\ call.global = "done" /\ call.fields = "done"
                /\ MainOfItsTopic(call.postData) => \A i \in 1..3 : call.inner[i] = "done"
                /\ WritesKept(call)

\* C19.  Every invocation calls its callback at most once, and once by the time
\* none of its backend calls is outstanding; a callback without an error comes after
\* every sub-update has been applied, and no backend call of the invocation is made
\* after it.
C19_CallbackOnceAfterAllWrites ==
    [][\A c \in Calls :
         /\ CalledBackOnce(c)'
         /\ (calls[c].cb = "ok" /\ calls'[c].ncb = calls[c].ncb /\ calls'[c].cb = "ok") =>
               (calls'[c].ops = calls[c].ops /\ store' = store)]_vars

\* An invocation for the main post of topic 1 has called back once, without an
\* error, after its seven backend calls; the topic's indices hold its tally.
C19_Witness ==
    /\ Accepted(1) /\ calls[1].postData.pid = 1 /\ calls[1].cb = "ok" /\ calls[1].ncb = 1
    /\ calls[1].ops = 7
    /\ calls[1].postData.votes = -1
    /\ HasScore(KeyTopicsVotes, 1, -1) /\ HasScore(KeyCidTidsVotes(1), 1, -1)
    /\ HasScore(KeyPostsVotes, 1, -1)
    /\ topicObj[1].downvotes = 1

\* The store as a record.
StoreNow == [zsets |-> zsets, postObj |-> postObj, topicObj |-> topicObj]

\* Two stores hold the same members with the same scores under every key, and the
\* same records.
SameStore(s, t) ==
    /\ \A k \in AllKeys :
          /\ DOMAIN s.zsets[k] = DOMAIN t.zsets[k]
          /\ \A m \in DOMAIN s.zsets[k] : s.zsets[k][m] = t.zsets[k][m]
    /\ \A p \in Pids : s.postObj[p] = t.postObj[p]
    /\ \A tid \in Tids : s.topicObj[tid] = t.topicObj[tid]

\* The store the two invocations started on: the posts they were not for still
\* have the tally they had then.
StartStores(pids) ==
    {StoreAfter(last, 3) : last \in {l \in StartTallies : \A p \in Pids \ pids : applied[p] = l[p]}}

\* C20.  When two invocations for two different posts have completed, overlapping
\* or not, the store is the one that running the first and then the second on the
\* store they started on gives, and the one that running the second and then the
\* first gives.
C20_DistinctPostsCommute ==
    (AllQuiescent /\ Accepted(1) /\ Accepted(2)
        /\ calls[1].postData.pid # calls[2].postData.pid) =>
        LET a == calls[1].postData
            b == calls[2].postData
        IN  \E s0 \in StartStores({a.pid, b.pid}) :
                /\ SameStore(StoreNow, ApplyVoteCounts(ApplyVoteCounts(s0, a), b))
                /\ SameStore(StoreNow, ApplyVoteCounts(ApplyVoteCounts(s0, b), a))

\* Invocations for the main post of topic 1 and for a reply of the same topic, with
\* different tallies, have completed on a store in which every post had one upvote.
C20_Witness ==
    /\ AllQuiescent /\ Accepted(1) /\ Accepted(2)
    /\ calls[1].postData.pid = 1 /\ calls[1].postData.votes = -1
    /\ calls[2].postData.pid = 2 /\ calls[2].postData.votes = 0
    /\ applied[3].present /\ applied[3].votes = 1
    /\ HasScore(KeyTopicsVotes, 1, -1)
    /\ HasScore(KeyTidPostsVotes(1), 2, 0)
    /\ HasScore(KeyPostsVotes, 1, -1) /\ HasScore(KeyPostsVotes, 2, 0)

\* Both invocations are in flight at once: each has written 'posts:votes' and
\* neither its topic-scoped entry.
C20_WitnessOverlap ==
    /\ Accepted(1) /\ Accepted(2)
    /\ calls[1].postData.pid = 1 /\ calls[2].postData.pid = 2
    /\ calls[1].global = "done" /\ calls[2].global = "done"
    /\ calls[1].topic = "parallel" /\ calls[2].topic = "sortedSetAdd"

====
